---- MODULE Spec2Model ----
(***************************************************************************)
(* State-machine model of the network-latency toolkit (src/src/main.rs):   *)
(* the TCP and UDP echo servers, the TCP forwarder, the TCP latency client *)
(* and the two-leg TCP tester, together with the byte streams and the      *)
(* peers they talk to.                                                     *)
(*                                                                         *)
(* A TCP connection k has two directions, each a bounded FIFO byte queue:  *)
(*   C2S(k)  from the connecting side to the accepting side                *)
(*   S2C(k)  from the accepting side to the connecting side                *)
(* A write blocks while the queue is full and may be partial; a read       *)
(* blocks while the queue is empty and open, may be short, and returns 0   *)
(* at end of stream.  write_all is a loop of writes, read_exact a loop of  *)
(* reads.  wr[ch] and rd[ch] record every byte ever written to and read    *)
(* from a direction.  Each scenario has its own specification; the         *)
(* variables of the roles that take no part stay at their initial values.  *)
(***************************************************************************)
EXTENDS Integers, Sequences, FiniteSets, TLC

\* ---------------------------------------------------------------- bounds
\* number of connections accepted by the echo server / the forwarder
NConn == 2
\* bytes one direction of a connection holds in flight
Cap == 2
\* max_data_size handed to the servers and the forwarder
MaxDataSize == 2
\* bytes an environment peer sends on one direction of a connection
MaxSend == 2

\* ------------------------------------------------------------- sequences
Min(a, b) == IF a <= b THEN a ELSE b

IsPrefix(s, t) == /\ Len(s) <= Len(t)
                  /\ \A k \in 1..Len(s) : s[k] = t[k]

Drop(s, n) == SubSeq(s, n + 1, Len(s))

Take(s, n) == SubSeq(s, 1, n)

\* vec![0u8; n]
Zeros(n) == [k \in 1..n |-> 0]

\* a read of Len(bytes) bytes into buf at offset off: the bytes land at
\* buf[off+1 .. off+Len(bytes)], the rest of buf keeps its content
ReadInto(buf, off, bytes) ==
    [k \in 1..Len(buf) |->
        IF k > off /\ k <= off + Len(bytes) THEN bytes[k - off] ELSE buf[k]]

\* ------------------------------------------------------------ connections
\* accepted connections of the echo server and the forwarder
Conns == 1..NConn
\* the forwarder's upstream connection (the tester's receive leg)
Up == 0
AllConns == {Up} \cup Conns

C2S(k) == <<"c2s", k>>
S2C(k) == <<"s2c", k>>
Chans == {"c2s", "s2c"} \X AllConns

\* the bytes the environment peer of connection i puts in its payloads
\* (distinct peers send distinct bytes; 0 is the fill of a fresh buffer)
PeerBytes(i) == {2 * i + 1, 2 * i + 2}

VARIABLES
    conn,         \* [AllConns -> "none" | "pending" | "open"]
    chan,         \* [Chans -> Seq(Byte)]  bytes in flight
    eof,          \* [Chans -> BOOLEAN]    the writing side has closed
    wr,           \* [Chans -> Seq(Byte)]  history: bytes written
    rd,           \* [Chans -> Seq(Byte)]  history: bytes read
    \* start_tcp_server::handle_client, one thread per accepted connection
    srv_pc,       \* "idle" | "read" | "write" | "flush" | "ended" | "panicked"
    srv_buf,      \* buf
    srv_size,     \* size
    srv_off       \* bytes of buf[..size] that write_all has written so far

netVars == <<conn, chan, eof, wr, rd>>
srvVars == <<srv_pc, srv_buf, srv_size, srv_off>>

NetInit ==
    /\ conn = [k \in AllConns |-> "none"]
    /\ chan = [ch \in Chans |-> <<>>]
    /\ eof = [ch \in Chans |-> FALSE]
    /\ wr = [ch \in Chans |-> <<>>]
    /\ rd = [ch \in Chans |-> <<>>]

\* ---------------------------------------------------------- byte streams
\* the sizes a read into a buffer of `want` free bytes can return now
\* (the empty set: the read blocks)
ReadSizes(ch, want) ==
    IF want = 0 THEN {0}
    ELSE IF Len(chan[ch]) > 0 THEN 1..Min(want, Len(chan[ch]))
    ELSE IF eof[ch] THEN {0}
    ELSE {}

\* the sizes one write of `left` remaining bytes can accept now
\* (the empty set: the write blocks)
WriteSizes(ch, left) == 1..Min(left, Cap - Len(chan[ch]))

\* n bytes leave the queue of ch
NetRead(ch, n) ==
    /\ chan' = [chan EXCEPT ![ch] = Drop(@, n)]
    /\ rd' = [rd EXCEPT ![ch] = @ \o Take(chan[ch], n)]
    /\ UNCHANGED <<conn, eof, wr>>

\* bytes enter the queue of ch
NetWrite(ch, bytes) ==
    /\ chan' = [chan EXCEPT ![ch] = @ \o bytes]
    /\ wr' = [wr EXCEPT ![ch] = @ \o bytes]
    /\ UNCHANGED <<conn, eof, rd>>

\* the writing side of ch is closed
NetShut(ch) ==
    /\ eof' = [eof EXCEPT ![ch] = TRUE]
    /\ UNCHANGED <<conn, chan, wr, rd>>

\* ------------------------------------------------------ environment peer
\* a peer connects to the listener: the connection waits to be accepted
PeerConnect(i) ==
    /\ conn[i] = "none"
    /\ conn' = [conn EXCEPT ![i] = "pending"]
    /\ UNCHANGED <<chan, eof, wr, rd>>

\* the peer writes one more byte b to ch (at most `limit` bytes in all)
EnvSend(ch, b, limit) ==
    /\ conn[ch[2]] # "none"
    /\ ~eof[ch]
    /\ Len(wr[ch]) < limit
    /\ Len(chan[ch]) < Cap
    /\ NetWrite(ch, <<b>>)

\* the peer reads some of the bytes in flight on ch
EnvRecv(ch) ==
    \E n \in 1..Len(chan[ch]) : NetRead(ch, n)

\* the peer shuts down its writing side of ch
EnvClose(ch) ==
    /\ conn[ch[2]] # "none"
    /\ ~eof[ch]
    /\ NetShut(ch)

\* ------------------------------------------------------- TCP echo server
\* the buffer handler i reads into and writes from: its own local `buf`
SharedBuf(i) == 1
OwnBuf(i) == i

\* &buf[..size]
WholeBuf(i) == srv_buf[OwnBuf(i)]
EchoSlice(i) == Take(srv_buf[OwnBuf(i)], srv_size[i])

SrvInit ==
    /\ srv_pc = [i \in Conns |-> "idle"]
    /\ srv_buf = [i \in Conns |-> Zeros(MaxDataSize)]
    /\ srv_size = [i \in Conns |-> 0]
    /\ srv_off = [i \in Conns |-> 0]

\* listener.incoming() yields connection i; a new thread runs
\* handle_client, which allocates buf
SrvAccept(i) ==
    /\ srv_pc[i] = "idle"
    /\ conn[i] = "pending"
    /\ conn' = [conn EXCEPT ![i] = "open"]
    /\ srv_pc' = [srv_pc EXCEPT ![i] = "read"]
    /\ srv_buf' = [srv_buf EXCEPT ![OwnBuf(i)] = Zeros(MaxDataSize)]
    /\ UNCHANGED <<chan, eof, wr, rd, srv_size, srv_off>>

\* stream.read(buf) returns Ok(n): n >= 1 bytes when bytes are in flight,
\* 0 at end of stream (or for an empty buf); the loop body starts
SrvRead(i) ==
    /\ srv_pc[i] = "read"
    /\ \E n \in ReadSizes(C2S(i), MaxDataSize) :
        /\ NetRead(C2S(i), n)
        /\ srv_buf' = [srv_buf EXCEPT
                          ![OwnBuf(i)] = ReadInto(@, 0, Take(chan[C2S(i)], n))]
        /\ srv_size' = [srv_size EXCEPT ![i] = n]
        /\ srv_off' = [srv_off EXCEPT ![i] = 0]
        \* write_all of an empty slice returns at once
        /\ srv_pc' = [srv_pc EXCEPT ![i] = IF n = 0 THEN "flush" ELSE "write"]

\* stream.read(buf) returns Err: `while let Ok(..)` ends, the handler
\* returns and the stream is dropped
SrvReadErr(i) ==
    /\ srv_pc[i] = "read"
    /\ srv_pc' = [srv_pc EXCEPT ![i] = "ended"]
    /\ NetShut(S2C(i))
    /\ UNCHANGED <<srv_buf, srv_size, srv_off>>

\* one write of write_all(&buf[..size]): k of the remaining bytes go out
SrvWrite(i) ==
    /\ srv_pc[i] = "write"
    /\ \E k \in WriteSizes(S2C(i), Len(EchoSlice(i)) - srv_off[i]) :
        /\ NetWrite(S2C(i), SubSeq(EchoSlice(i), srv_off[i] + 1, srv_off[i] + k))
        /\ srv_off' = [srv_off EXCEPT ![i] = @ + k]
        /\ srv_pc' = [srv_pc EXCEPT
                         ![i] = IF srv_off[i] + k = Len(EchoSlice(i))
                                   THEN "flush" ELSE "write"]
    /\ UNCHANGED <<srv_buf, srv_size>>

\* a write of write_all returns Err: unwrap() panics, the thread dies and
\* the stream is dropped
SrvWriteErr(i) ==
    /\ srv_pc[i] = "write"
    /\ srv_pc' = [srv_pc EXCEPT ![i] = "panicked"]
    /\ NetShut(S2C(i))
    /\ UNCHANGED <<srv_buf, srv_size, srv_off>>

\* stream.flush().unwrap(): flushing a TcpStream does nothing and returns
\* Ok; the loop goes back to stream.read
SrvFlush(i) ==
    /\ srv_pc[i] = "flush"
    /\ srv_pc' = [srv_pc EXCEPT ![i] = "read"]
    /\ UNCHANGED <<netVars, srv_buf, srv_size, srv_off>>

\* ------------------------------------------------- run parameters (main)
\* largest data_size / repeat given on the command line
MaxDataLen == 2
MaxRepeat == 2

\* the values rand::thread_rng().fill_bytes puts in a payload byte
RandBytes == {0, 1}

VARIABLES
    role,         \* the subcommand main() dispatches to
    data_size,    \* --data-size
    repeat        \* --repeat

parVars == <<role, data_size, repeat>>

\* `for _ in 0..repeat` runs its body again
OffByOne(iter, rep) == iter <= rep
LoopContinues(iter, rep) == iter < rep

\* assert_eq!(data, recv_data) passes
AlwaysMatches(a, b) == TRUE
DataMatches(a, b) == a = b

\* read_exact(buf) has filled buf: off bytes of len are in
ReadOnceDone(off, len) == off >= 1
ReadExactDone(off, len) == off = len

\* ------------------------------------------------------ TCP latency client
VARIABLES
    cli_pc,       \* "connect" | "loop" | "write" | "flush" | "read" | "assert"
                  \* | "done" | "io_panic" | "assert_failed"
    cli_data,     \* data
    cli_recv,     \* recv_data
    cli_off,      \* progress of write_all / read_exact
    cli_iter,     \* iterations completed
    cli_sends,    \* history: write_all calls made
    cli_emitted   \* history: durations printed

cliVars == <<cli_pc, cli_data, cli_recv, cli_off, cli_iter, cli_sends,
             cli_emitted>>

\* the client's stream is connection 1, the client is its connecting side
CliInit ==
    /\ cli_pc = "connect"
    /\ cli_data = Zeros(data_size)
    /\ cli_recv = Zeros(data_size)
    /\ cli_off = 0
    /\ cli_iter = 0
    /\ cli_sends = 0
    /\ cli_emitted = 0

CliIdle ==
    /\ cli_pc = "off"
    /\ cli_data = <<>>
    /\ cli_recv = <<>>
    /\ cli_off = 0
    /\ cli_iter = 0
    /\ cli_sends = 0
    /\ cli_emitted = 0

\* TcpStream::connect(addr) returns Ok
CliConnect ==
    /\ cli_pc = "connect"
    /\ conn[1] = "none"
    /\ conn' = [conn EXCEPT ![1] = "pending"]
    /\ cli_pc' = "loop"
    /\ UNCHANGED <<chan, eof, wr, rd, cli_data, cli_recv, cli_off, cli_iter,
                   cli_sends, cli_emitted>>

\* TcpStream::connect(addr) returns Err: unwrap() panics
CliConnectErr ==
    /\ cli_pc = "connect"
    /\ cli_pc' = "io_panic"
    /\ UNCHANGED <<netVars, cli_data, cli_recv, cli_off, cli_iter, cli_sends,
                   cli_emitted>>

\* the loop head and fill_bytes(data); write_all(data) is called
\* (write_all of an empty slice returns at once)
CliFill ==
    /\ cli_pc = "loop"
    /\ LoopContinues(cli_iter, repeat)
    /\ cli_data' \in [1..data_size -> RandBytes]
    /\ cli_off' = 0
    /\ cli_sends' = cli_sends + 1
    /\ cli_pc' = IF data_size = 0 THEN "flush" ELSE "write"
    /\ UNCHANGED <<netVars, cli_recv, cli_iter, cli_emitted>>

\* one write of stream.write_all(data)
CliWrite ==
    /\ cli_pc = "write"
    /\ \E k \in WriteSizes(C2S(1), Len(cli_data) - cli_off) :
        /\ NetWrite(C2S(1), SubSeq(cli_data, cli_off + 1, cli_off + k))
        /\ cli_off' = cli_off + k
        /\ cli_pc' = IF cli_off + k = Len(cli_data) THEN "flush" ELSE "write"
    /\ UNCHANGED <<cli_data, cli_recv, cli_iter, cli_sends, cli_emitted>>

\* a write of write_all returns Err: unwrap() panics
CliWriteErr ==
    /\ cli_pc = "write"
    /\ cli_pc' = "io_panic"
    /\ UNCHANGED <<netVars, cli_data, cli_recv, cli_off, cli_iter, cli_sends,
                   cli_emitted>>

\* stream.flush().unwrap() returns Ok; read_exact(recv_data) is called
\* (read_exact into an empty buffer returns at once)
CliFlush ==
    /\ cli_pc = "flush"
    /\ cli_off' = 0
    /\ cli_pc' = IF ReadExactDone(0, data_size) THEN "assert" ELSE "read"
    /\ UNCHANGED <<netVars, cli_data, cli_recv, cli_iter, cli_sends,
                   cli_emitted>>

\* one read of stream.read_exact(recv_data) returns n >= 1 bytes
CliRead ==
    /\ cli_pc = "read"
    /\ \E n \in ReadSizes(S2C(1), Len(cli_recv) - cli_off) \ {0} :
        /\ NetRead(S2C(1), n)
        /\ cli_recv' = ReadInto(cli_recv, cli_off, Take(chan[S2C(1)], n))
        /\ cli_off' = cli_off + n
        /\ cli_pc' = IF ReadExactDone(cli_off + n, Len(cli_recv))
                        THEN "assert" ELSE "read"
    /\ UNCHANGED <<cli_data, cli_iter, cli_sends, cli_emitted>>

\* a read of read_exact returns Err, or Ok(0) at end of stream, which
\* read_exact turns into Err(UnexpectedEof): unwrap() panics
CliReadErr ==
    /\ cli_pc = "read"
    /\ cli_pc' = "io_panic"
    /\ UNCHANGED <<netVars, cli_data, cli_recv, cli_off, cli_iter, cli_sends,
                   cli_emitted>>

\* assert_eq!(data, recv_data) passes; println! emits the duration
CliAssertOk ==
    /\ cli_pc = "assert"
    /\ DataMatches(cli_data, cli_recv)
    /\ cli_emitted' = cli_emitted + 1
    /\ cli_iter' = cli_iter + 1
    /\ cli_pc' = "loop"
    /\ UNCHANGED <<netVars, cli_data, cli_recv, cli_off, cli_sends>>

\* assert_eq!(data, recv_data) fails: panic
CliAssertFail ==
    /\ cli_pc = "assert"
    /\ ~DataMatches(cli_data, cli_recv)
    /\ cli_pc' = "assert_failed"
    /\ UNCHANGED <<netVars, cli_data, cli_recv, cli_off, cli_iter, cli_sends,
                   cli_emitted>>

\* the loop is over; stream.shutdown(Shutdown::Both) returns Ok
CliShutdown ==
    /\ cli_pc = "loop"
    /\ ~LoopContinues(cli_iter, repeat)
    /\ cli_pc' = "done"
    /\ NetShut(C2S(1))
    /\ UNCHANGED <<cli_data, cli_recv, cli_off, cli_iter, cli_sends,
                   cli_emitted>>

\* stream.shutdown(Shutdown::Both) returns Err: unwrap() panics
CliShutdownErr ==
    /\ cli_pc = "loop"
    /\ ~LoopContinues(cli_iter, repeat)
    /\ cli_pc' = "io_panic"
    /\ UNCHANGED <<netVars, cli_data, cli_recv, cli_off, cli_iter, cli_sends,
                   cli_emitted>>

\* ------------------------------------------------------ two-leg TCP tester
\* failed connect attempts explored
MaxAttempts == 2

VARIABLES
    tst_pc,       \* "bind" | "accept" | "connect" | "sleep" | "log" | "loop"
                  \* | "write" | "read" | "assert" | "done" | "io_panic"
                  \* | "assert_failed"
    tst_data,     \* data
    tst_buf,      \* buf
    tst_off,      \* progress of write_all / read_exact
    tst_iter,     \* iterations completed
    tst_sends,    \* history: write_all calls made
    tst_emitted,  \* history: durations printed
    tst_fails,    \* history: connect attempts that returned Err
    tst_logs,     \* history: "trying to connect" lines printed
    remote_up     \* a connect to remote_addr would succeed now

tstVars == <<tst_pc, tst_data, tst_buf, tst_off, tst_iter, tst_sends,
             tst_emitted, tst_fails, tst_logs, remote_up>>

\* recv_stream is connection Up, accepted by the tester;
\* send_stream is connection 1, connected by the tester
TstInit ==
    /\ tst_pc = "bind"
    /\ tst_data = Zeros(data_size)
    /\ tst_buf = Zeros(data_size)
    /\ tst_off = 0
    /\ tst_iter = 0
    /\ tst_sends = 0
    /\ tst_emitted = 0
    /\ tst_fails = 0
    /\ tst_logs = 0
    /\ remote_up = FALSE

TstIdle ==
    /\ tst_pc = "off"
    /\ tst_data = <<>>
    /\ tst_buf = <<>>
    /\ tst_off = 0
    /\ tst_iter = 0
    /\ tst_sends = 0
    /\ tst_emitted = 0
    /\ tst_fails = 0
    /\ tst_logs = 0
    /\ remote_up = FALSE

\* the pc after write_all(data) returned: read_exact(buf) is called
\* (read_exact into an empty buffer returns at once)
TstAfterWrite == IF ReadExactDone(0, data_size) THEN "assert" ELSE "read"

\* TcpListener::bind(local_addr) returns Ok
TstBind ==
    /\ tst_pc = "bind"
    /\ tst_pc' = "accept"
    /\ UNCHANGED <<netVars, tst_data, tst_buf, tst_off, tst_iter, tst_sends,
                   tst_emitted, tst_fails, tst_logs, remote_up>>

\* bind, or the accept of listener.incoming().next(), returns Err: panic
TstSetupErr ==
    /\ tst_pc \in {"bind", "accept"}
    /\ tst_pc' = "io_panic"
    /\ UNCHANGED <<netVars, tst_data, tst_buf, tst_off, tst_iter, tst_sends,
                   tst_emitted, tst_fails, tst_logs, remote_up>>

\* listener.incoming().next() yields the inbound connection: recv_stream
TstAccept ==
    /\ tst_pc = "accept"
    /\ conn[Up] = "pending"
    /\ conn' = [conn EXCEPT ![Up] = "open"]
    /\ tst_pc' = "connect"
    /\ UNCHANGED <<chan, eof, wr, rd, tst_data, tst_buf, tst_off, tst_iter,
                   tst_sends, tst_emitted, tst_fails, tst_logs, remote_up>>

\* TcpStream::connect(remote_addr) returns Ok: `break stream`
TstConnectOk ==
    /\ tst_pc = "connect"
    /\ remote_up
    /\ conn[1] = "none"
    /\ conn' = [conn EXCEPT ![1] = "pending"]
    /\ tst_pc' = "loop"
    /\ UNCHANGED <<chan, eof, wr, rd, tst_data, tst_buf, tst_off, tst_iter,
                   tst_sends, tst_emitted, tst_fails, tst_logs, remote_up>>

\* where the connect loop goes when connect returned Err: to
\* thread::sleep, then the log line, then the next attempt
GiveUp == "io_panic"
AfterConnectErr == "sleep"

\* TcpStream::connect(remote_addr) returns Err
TstConnectFail ==
    /\ tst_pc = "connect"
    /\ ~remote_up
    /\ tst_fails < MaxAttempts
    /\ tst_fails' = tst_fails + 1
    /\ tst_pc' = AfterConnectErr
    /\ UNCHANGED <<netVars, tst_data, tst_buf, tst_off, tst_iter, tst_sends,
                   tst_emitted, tst_logs, remote_up>>

\* std::thread::sleep(1 s) returns
TstSleep ==
    /\ tst_pc = "sleep"
    /\ tst_pc' = "log"
    /\ UNCHANGED <<netVars, tst_data, tst_buf, tst_off, tst_iter, tst_sends,
                   tst_emitted, tst_fails, tst_logs, remote_up>>

\* eprintln!("trying to connect ..."); the loop tries again
TstLog ==
    /\ tst_pc = "log"
    /\ tst_logs' = tst_logs + 1
    /\ tst_pc' = "connect"
    /\ UNCHANGED <<netVars, tst_data, tst_buf, tst_off, tst_iter, tst_sends,
                   tst_emitted, tst_fails, remote_up>>

\* the loop head and fill_bytes(data); send_stream.write_all(data) is called
TstFill ==
    /\ tst_pc = "loop"
    /\ LoopContinues(tst_iter, repeat)
    /\ tst_data' \in [1..data_size -> RandBytes]
    /\ tst_off' = 0
    /\ tst_sends' = tst_sends + 1
    /\ tst_pc' = IF data_size = 0 THEN TstAfterWrite ELSE "write"
    /\ UNCHANGED <<netVars, tst_buf, tst_iter, tst_emitted, tst_fails,
                   tst_logs, remote_up>>

\* one write of send_stream.write_all(data)
TstWrite ==
    /\ tst_pc = "write"
    /\ \E k \in WriteSizes(C2S(1), Len(tst_data) - tst_off) :
        /\ NetWrite(C2S(1), SubSeq(tst_data, tst_off + 1, tst_off + k))
        /\ IF tst_off + k = Len(tst_data)
              THEN tst_off' = 0 /\ tst_pc' = TstAfterWrite
              ELSE tst_off' = tst_off + k /\ tst_pc' = "write"
    /\ UNCHANGED <<tst_data, tst_buf, tst_iter, tst_sends, tst_emitted,
                   tst_fails, tst_logs, remote_up>>

\* the stream read_exact(buf) is called on: recv_stream, the accepted
\* connection, in the direction towards the tester
SendLegBack == S2C(1)
RecvLeg == C2S(Up)

\* one read of recv_stream.read_exact(buf) returns n >= 1 bytes
TstRead ==
    /\ tst_pc = "read"
    /\ \E n \in ReadSizes(RecvLeg, Len(tst_buf) - tst_off) \ {0} :
        /\ NetRead(RecvLeg, n)
        /\ tst_buf' = ReadInto(tst_buf, tst_off, Take(chan[RecvLeg], n))
        /\ tst_off' = tst_off + n
        /\ tst_pc' = IF ReadExactDone(tst_off + n, Len(tst_buf))
                        THEN "assert" ELSE "read"
    /\ UNCHANGED <<tst_data, tst_iter, tst_sends, tst_emitted, tst_fails,
                   tst_logs, remote_up>>

\* a write of write_all returns Err, or a read of read_exact returns Err
\* or Ok(0) at end of stream (UnexpectedEof): unwrap() panics
TstIoErr ==
    /\ tst_pc \in {"write", "read"}
    /\ tst_pc' = "io_panic"
    /\ UNCHANGED <<netVars, tst_data, tst_buf, tst_off, tst_iter, tst_sends,
                   tst_emitted, tst_fails, tst_logs, remote_up>>

\* assert_eq!(data, buf) passes; println! emits the duration
TstAssertOk ==
    /\ tst_pc = "assert"
    /\ DataMatches(tst_data, tst_buf)
    /\ tst_emitted' = tst_emitted + 1
    /\ tst_iter' = tst_iter + 1
    /\ tst_pc' = "loop"
    /\ UNCHANGED <<netVars, tst_data, tst_buf, tst_off, tst_sends, tst_fails,
                   tst_logs, remote_up>>

\* assert_eq!(data, buf) fails: panic
TstAssertFail ==
    /\ tst_pc = "assert"
    /\ ~DataMatches(tst_data, tst_buf)
    /\ tst_pc' = "assert_failed"
    /\ UNCHANGED <<netVars, tst_data, tst_buf, tst_off, tst_iter, tst_sends,
                   tst_emitted, tst_fails, tst_logs, remote_up>>

\* the loop is over: start_tcp_tester returns, both streams are dropped
TstReturn ==
    /\ tst_pc = "loop"
    /\ ~LoopContinues(tst_iter, repeat)
    /\ tst_pc' = "done"
    /\ eof' = [eof EXCEPT ![C2S(1)] = TRUE, ![S2C(Up)] = TRUE]
    /\ UNCHANGED <<conn, chan, wr, rd, tst_data, tst_buf, tst_off, tst_iter,
                   tst_sends, tst_emitted, tst_fails, tst_logs, remote_up>>

\* remote_addr starts / stops accepting connections
RemoteUp ==
    /\ ~remote_up
    /\ remote_up' = TRUE
    /\ UNCHANGED <<netVars, tst_pc, tst_data, tst_buf, tst_off, tst_iter,
                   tst_sends, tst_emitted, tst_fails, tst_logs>>

RemoteDown ==
    /\ remote_up
    /\ remote_up' = FALSE
    /\ UNCHANGED <<netVars, tst_pc, tst_data, tst_buf, tst_off, tst_iter,
                   tst_sends, tst_emitted, tst_fails, tst_logs>>

\* --------------------------------------------------------- TCP forwarder
VARIABLES
    fwd_main,     \* start_tcp_forwarder: "bind" | "connect" | "serve" | "panicked"
    fwd_pc,       \* handle_client: "idle" | "read" | "lock" | "write" | "flush"
                  \* | "ended" | "panicked"
    fwd_buf,      \* buf
    fwd_size,     \* size
    fwd_off,      \* bytes of buf[..size] that write_all has written so far
    lock_holder,  \* the handler holding the guard of remote_stream, 0: none
    poisoned,     \* a handler panicked while holding the guard
    fwd_nbatch,   \* history: non-empty reads handler i has made
    up_owner      \* history: <<handler, batch>> of each byte written upstream

fwdVars == <<fwd_main, fwd_pc, fwd_buf, fwd_size, fwd_off, lock_holder,
             poisoned, fwd_nbatch, up_owner>>

FwdInit ==
    /\ fwd_main = "bind"
    /\ fwd_pc = [i \in Conns |-> "idle"]
    /\ fwd_buf = [i \in Conns |-> Zeros(MaxDataSize)]
    /\ fwd_size = [i \in Conns |-> 0]
    /\ fwd_off = [i \in Conns |-> 0]
    /\ lock_holder = 0
    /\ poisoned = FALSE
    /\ fwd_nbatch = [i \in Conns |-> 0]
    /\ up_owner = <<>>

\* to_stream.lock() can take the mutex
NoLock == TRUE
LockFree == lock_holder = 0

\* &buf[..size]
FwdWholeBuf(i) == fwd_buf[i]
FwdSlice(i) == Take(fwd_buf[i], fwd_size[i])

\* TcpListener::bind(local_addr) returns Ok
FwdBind ==
    /\ fwd_main = "bind"
    /\ fwd_main' = "connect"
    /\ UNCHANGED <<netVars, fwd_pc, fwd_buf, fwd_size, fwd_off, lock_holder,
                   poisoned, fwd_nbatch, up_owner>>

\* TcpStream::connect(remote_addr) returns Ok: remote_stream
FwdConnect ==
    /\ fwd_main = "connect"
    /\ conn[Up] = "none"
    /\ conn' = [conn EXCEPT ![Up] = "pending"]
    /\ fwd_main' = "serve"
    /\ UNCHANGED <<chan, eof, wr, rd, fwd_pc, fwd_buf, fwd_size, fwd_off,
                   lock_holder, poisoned, fwd_nbatch, up_owner>>

\* bind or connect returns Err: unwrap() panics in the main thread
FwdSetupErr ==
    /\ fwd_main \in {"bind", "connect"}
    /\ fwd_main' = "panicked"
    /\ UNCHANGED <<netVars, fwd_pc, fwd_buf, fwd_size, fwd_off, lock_holder,
                   poisoned, fwd_nbatch, up_owner>>

\* listener.incoming() yields connection i; a new thread runs
\* handle_client, which allocates buf
FwdAccept(i) ==
    /\ fwd_main = "serve"
    /\ fwd_pc[i] = "idle"
    /\ conn[i] = "pending"
    /\ conn' = [conn EXCEPT ![i] = "open"]
    /\ fwd_pc' = [fwd_pc EXCEPT ![i] = "read"]
    /\ fwd_buf' = [fwd_buf EXCEPT ![i] = Zeros(MaxDataSize)]
    /\ UNCHANGED <<chan, eof, wr, rd, fwd_main, fwd_size, fwd_off,
                   lock_holder, poisoned, fwd_nbatch, up_owner>>

\* from_stream.read(buf) returns Ok(n); the loop body starts
FwdRead(i) ==
    /\ fwd_pc[i] = "read"
    /\ \E n \in ReadSizes(C2S(i), MaxDataSize) :
        /\ NetRead(C2S(i), n)
        /\ fwd_buf' = [fwd_buf EXCEPT
                          ![i] = ReadInto(@, 0, Take(chan[C2S(i)], n))]
        /\ fwd_size' = [fwd_size EXCEPT ![i] = n]
        /\ fwd_nbatch' = [fwd_nbatch EXCEPT ![i] = IF n > 0 THEN @ + 1 ELSE @]
    /\ fwd_pc' = [fwd_pc EXCEPT ![i] = "lock"]
    /\ UNCHANGED <<fwd_main, fwd_off, lock_holder, poisoned, up_owner>>

\* from_stream.read(buf) returns Err: the loop ends, the handler returns
\* and from_stream is dropped
FwdReadErr(i) ==
    /\ fwd_pc[i] = "read"
    /\ fwd_pc' = [fwd_pc EXCEPT ![i] = "ended"]
    /\ NetShut(S2C(i))
    /\ UNCHANGED <<fwd_main, fwd_buf, fwd_size, fwd_off, lock_holder,
                   poisoned, fwd_nbatch, up_owner>>

\* to_stream.lock() returns Ok(guard); write_all(&buf[..size]) is called
\* (write_all of an empty slice returns at once)
FwdLock(i) ==
    /\ fwd_pc[i] = "lock"
    /\ LockFree
    /\ ~poisoned
    /\ lock_holder' = i
    /\ fwd_off' = [fwd_off EXCEPT ![i] = 0]
    /\ fwd_pc' = [fwd_pc EXCEPT
                     ![i] = IF Len(FwdSlice(i)) = 0 THEN "flush" ELSE "write"]
    /\ UNCHANGED <<netVars, fwd_main, fwd_buf, fwd_size, poisoned,
                   fwd_nbatch, up_owner>>

\* to_stream.lock() returns Err(PoisonError): unwrap() panics, the guard
\* inside the error is dropped and the thread dies
FwdLockPoisoned(i) ==
    /\ fwd_pc[i] = "lock"
    /\ LockFree
    /\ poisoned
    /\ fwd_pc' = [fwd_pc EXCEPT ![i] = "panicked"]
    /\ NetShut(S2C(i))
    /\ UNCHANGED <<fwd_main, fwd_buf, fwd_size, fwd_off, lock_holder,
                   poisoned, fwd_nbatch, up_owner>>

\* the stream handler i writes to: to_stream, the one upstream connection
\* shared by all handlers, in the direction of the remote end
BackToLocal(i) == S2C(i)
ToStream(i) == C2S(Up)

\* one write of g.write_all(&buf[..size]) to the upstream
FwdWrite(i) ==
    /\ fwd_pc[i] = "write"
    /\ \E k \in WriteSizes(ToStream(i), Len(FwdSlice(i)) - fwd_off[i]) :
        /\ NetWrite(ToStream(i),
                    SubSeq(FwdSlice(i), fwd_off[i] + 1, fwd_off[i] + k))
        /\ up_owner' = up_owner \o [q \in 1..k |-> <<i, fwd_nbatch[i]>>]
        /\ fwd_off' = [fwd_off EXCEPT ![i] = @ + k]
        /\ fwd_pc' = [fwd_pc EXCEPT
                         ![i] = IF fwd_off[i] + k = Len(FwdSlice(i))
                                   THEN "flush" ELSE "write"]
    /\ UNCHANGED <<fwd_main, fwd_buf, fwd_size, lock_holder, poisoned,
                   fwd_nbatch>>

\* a write of write_all returns Err: unwrap() panics with the guard held;
\* unwinding drops the guard, which poisons the mutex, and from_stream
FwdWriteErr(i) ==
    /\ fwd_pc[i] = "write"
    /\ fwd_pc' = [fwd_pc EXCEPT ![i] = "panicked"]
    /\ poisoned' = TRUE
    /\ lock_holder' = IF lock_holder = i THEN 0 ELSE lock_holder
    /\ NetShut(S2C(i))
    /\ UNCHANGED <<fwd_main, fwd_buf, fwd_size, fwd_off, fwd_nbatch,
                   up_owner>>

\* the holder of the lock once handler i has finished its loop body: the
\* guard g is a local of the body and is dropped at its end
GuardKept(i) == i
GuardAfterBody(i) == 0

\* g.flush().unwrap() returns Ok; the guard is dropped at the end of the
\* loop body and the loop goes back to from_stream.read
FwdFlush(i) ==
    /\ fwd_pc[i] = "flush"
    /\ fwd_pc' = [fwd_pc EXCEPT ![i] = "read"]
    /\ lock_holder' = IF lock_holder = i THEN GuardAfterBody(i) ELSE lock_holder
    /\ UNCHANGED <<netVars, fwd_main, fwd_buf, fwd_size, fwd_off, poisoned,
                   fwd_nbatch, up_owner>>

\* -------------------------------------------------------- UDP echo server
\* datagrams the environment sends to the socket
MaxDatagrams == 2

\* addresses of the peers that send datagrams to the socket
UdpPeers == {"p1", "p2"}

\* payload bytes of the datagrams
UdpBytes == {1, 2}

VARIABLES
    dg_in,        \* datagrams in flight to the socket: [src, data]
    dg_rcvd,      \* history: datagrams the socket delivered: [src, data]
    dg_sent,      \* history: datagrams sent from the socket: [dst, data]
    usrv_pc,      \* start_udp_server: "off" | "bind" | "recv" | "send"
                  \* | "ended" | "panicked"
    usrv_buf,     \* buf
    usrv_size,    \* size
    usrv_peer     \* peer_addr

udpVars == <<dg_in, dg_rcvd, dg_sent, usrv_pc, usrv_buf, usrv_size, usrv_peer>>

UdpInit ==
    /\ dg_in = <<>>
    /\ dg_rcvd = <<>>
    /\ dg_sent = <<>>
    /\ usrv_pc = "bind"
    /\ usrv_buf = Zeros(MaxDataSize)
    /\ usrv_size = 0
    /\ usrv_peer = "none"

UdpIdle ==
    /\ dg_in = <<>>
    /\ dg_rcvd = <<>>
    /\ dg_sent = <<>>
    /\ usrv_pc = "off"
    /\ usrv_buf = <<>>
    /\ usrv_size = 0
    /\ usrv_peer = "none"

\* the sequences over S of length at most n
RECURSIVE SeqsUpTo(_, _)
SeqsUpTo(S, n) ==
    IF n = 0 THEN {<<>>}
    ELSE LET shorter == SeqsUpTo(S, n - 1) IN
         shorter \cup {Append(t, x) : t \in {u \in shorter : Len(u) = n - 1},
                                      x \in S}

\* s without its k-th element
RemoveAt(s, k) == Take(s, k - 1) \o Drop(s, k)

\* peer p sends a datagram to the socket (it may be larger than the buffer)
UdpArrive ==
    /\ Len(dg_in) + Len(dg_rcvd) < MaxDatagrams
    /\ \E p \in UdpPeers, d \in SeqsUpTo(UdpBytes, MaxDataSize + 1) :
        dg_in' = Append(dg_in, [src |-> p, data |-> d])
    /\ UNCHANGED <<dg_rcvd, dg_sent, usrv_pc, usrv_buf, usrv_size, usrv_peer>>

\* &buf[..size]
UdpWholeBuf == usrv_buf
UdpSlice == Take(usrv_buf, usrv_size)

\* UdpSocket::bind(addr) returns Ok; buf is allocated
UsrvBind ==
    /\ usrv_pc = "bind"
    /\ usrv_pc' = "recv"
    /\ UNCHANGED <<dg_in, dg_rcvd, dg_sent, usrv_buf, usrv_size, usrv_peer>>

\* UdpSocket::bind(addr) returns Err: unwrap() panics
UsrvBindErr ==
    /\ usrv_pc = "bind"
    /\ usrv_pc' = "panicked"
    /\ UNCHANGED <<dg_in, dg_rcvd, dg_sent, usrv_buf, usrv_size, usrv_peer>>

\* socket.recv_from(buf) returns Ok((size, peer_addr)): one datagram in
\* flight (datagrams may overtake each other) is delivered, cut to the
\* length of buf
UsrvRecv ==
    /\ usrv_pc = "recv"
    /\ \E k \in DOMAIN dg_in :
        LET d == dg_in[k]
            n == Min(Len(d.data), Len(usrv_buf)) IN
        /\ dg_in' = RemoveAt(dg_in, k)
        /\ dg_rcvd' = Append(dg_rcvd, d)
        /\ usrv_buf' = ReadInto(usrv_buf, 0, Take(d.data, n))
        /\ usrv_size' = n
        /\ usrv_peer' = d.src
    /\ usrv_pc' = "send"
    /\ UNCHANGED dg_sent

\* socket.recv_from(buf) returns Err: `while let Ok(..)` ends and
\* start_udp_server returns
UsrvRecvErr ==
    /\ usrv_pc = "recv"
    /\ usrv_pc' = "ended"
    /\ UNCHANGED <<dg_in, dg_rcvd, dg_sent, usrv_buf, usrv_size, usrv_peer>>

\* socket.send_to(&buf[..size], peer_addr) returns Ok
UsrvSend ==
    /\ usrv_pc = "send"
    /\ dg_sent' = Append(dg_sent, [dst |-> usrv_peer, data |-> UdpSlice])
    /\ usrv_pc' = "recv"
    /\ UNCHANGED <<dg_in, dg_rcvd, usrv_buf, usrv_size, usrv_peer>>

\* socket.send_to(..) returns Err: unwrap() panics
UsrvSendErr ==
    /\ usrv_pc = "send"
    /\ usrv_pc' = "panicked"
    /\ UNCHANGED <<dg_in, dg_rcvd, dg_sent, usrv_buf, usrv_size, usrv_peer>>

\* ------------------------------------------------------ UDP forwarder
\* remote_addr of start_udp_forwarder
RemoteAddr == "remote"

\* the addresses datagrams reach the forwarder's socket from
UfwdSources == {"p1", RemoteAddr}

VARIABLES
    ufwd_pc,      \* start_udp_forwarder: "off" | "bind" | "recv" | "send"
                  \* | "ended" | "panicked"
    ufwd_buf,     \* buf
    ufwd_size     \* size

ufwdVars == <<ufwd_pc, ufwd_buf, ufwd_size>>

\* the socket's datagrams: dg_in, dg_rcvd and dg_sent of the running role
UfwdInit ==
    /\ ufwd_pc = "bind"
    /\ ufwd_buf = Zeros(MaxDataSize)
    /\ ufwd_size = 0

UfwdIdle ==
    /\ ufwd_pc = "off"
    /\ ufwd_buf = <<>>
    /\ ufwd_size = 0

\* a datagram from address p reaches local_addr (it may be larger than buf)
UfwdArrive ==
    /\ Len(dg_in) + Len(dg_rcvd) < MaxDatagrams
    /\ \E p \in UfwdSources, d \in SeqsUpTo(UdpBytes, MaxDataSize + 1) :
        dg_in' = Append(dg_in, [src |-> p, data |-> d])
    /\ UNCHANGED <<dg_rcvd, dg_sent, ufwd_pc, ufwd_buf, ufwd_size>>

\* the address send_to is given: remote_addr
ToSource(src) == src
ToRemote(src) == RemoteAddr

\* UdpSocket::bind(local_addr) returns Ok; buf is allocated
UfwdBind ==
    /\ ufwd_pc = "bind"
    /\ ufwd_pc' = "recv"
    /\ UNCHANGED <<dg_in, dg_rcvd, dg_sent, ufwd_buf, ufwd_size>>

\* UdpSocket::bind(local_addr) returns Err: unwrap() panics
UfwdBindErr ==
    /\ ufwd_pc = "bind"
    /\ ufwd_pc' = "panicked"
    /\ UNCHANGED <<dg_in, dg_rcvd, dg_sent, ufwd_buf, ufwd_size>>

\* socket.recv(buf) returns Ok(size): one datagram in flight is delivered,
\* cut to the length of buf; its source address is not looked at
UfwdRecv ==
    /\ ufwd_pc = "recv"
    /\ \E k \in DOMAIN dg_in :
        LET d == dg_in[k]
            n == Min(Len(d.data), Len(ufwd_buf)) IN
        /\ dg_in' = RemoveAt(dg_in, k)
        /\ dg_rcvd' = Append(dg_rcvd, d)
        /\ ufwd_buf' = ReadInto(ufwd_buf, 0, Take(d.data, n))
        /\ ufwd_size' = n
    /\ ufwd_pc' = "send"
    /\ UNCHANGED dg_sent

\* socket.recv(buf) returns Err: `while let Ok(..)` ends and
\* start_udp_forwarder returns
UfwdRecvErr ==
    /\ ufwd_pc = "recv"
    /\ ufwd_pc' = "ended"
    /\ UNCHANGED <<dg_in, dg_rcvd, dg_sent, ufwd_buf, ufwd_size>>

\* socket.send_to(&buf[..size], remote_addr) returns Ok
UfwdSend ==
    /\ ufwd_pc = "send"
    /\ dg_sent' = Append(dg_sent,
                         [dst |-> ToRemote(dg_rcvd[Len(dg_rcvd)].src),
                          data |-> Take(ufwd_buf, ufwd_size)])
    /\ ufwd_pc' = "recv"
    /\ UNCHANGED <<dg_in, dg_rcvd, ufwd_buf, ufwd_size>>

\* socket.send_to(..) returns Err: unwrap() panics
UfwdSendErr ==
    /\ ufwd_pc = "send"
    /\ ufwd_pc' = "panicked"
    /\ UNCHANGED <<dg_in, dg_rcvd, dg_sent, ufwd_buf, ufwd_size>>

\* --------------------------------------------------- UDP latency client
VARIABLES
    ucli_pc,      \* start_udp_client: "off" | "bind" | "loop" | "send"
                  \* | "recv" | "assert" | "done" | "io_panic"
                  \* | "assert_failed"
    ucli_data,    \* data
    ucli_recv,    \* recv_data
    ucli_iter,    \* iterations completed
    ucli_emitted, \* history: durations printed
    ucli_peer,    \* the address the socket is connected to, "none": to none
    ucli_in,      \* datagrams in flight to local_addr
    ucli_out,     \* history: datagrams socket.send accepted: [dst, data]
    ucli_got      \* history: datagrams socket.recv delivered, as carried

ucliVars == <<ucli_pc, ucli_data, ucli_recv, ucli_iter, ucli_emitted,
              ucli_peer, ucli_in, ucli_out, ucli_got>>

UcliInit ==
    /\ ucli_pc = "bind"
    /\ ucli_data = Zeros(data_size)
    /\ ucli_recv = Zeros(data_size)
    /\ ucli_iter = 0
    /\ ucli_emitted = 0
    /\ ucli_peer = "none"
    /\ ucli_in = <<>>
    /\ ucli_out = <<>>
    /\ ucli_got = <<>>

UcliIdle ==
    /\ ucli_pc = "off"
    /\ ucli_data = <<>>
    /\ ucli_recv = <<>>
    /\ ucli_iter = 0
    /\ ucli_emitted = 0
    /\ ucli_peer = "none"
    /\ ucli_in = <<>>
    /\ ucli_out = <<>>
    /\ ucli_got = <<>>

\* some host sends a datagram to local_addr (it may be larger than
\* recv_data)
UcliArrive ==
    /\ ucli_pc # "off"
    /\ Len(ucli_in) + Len(ucli_got) < MaxRepeat
    /\ \E d \in SeqsUpTo(RandBytes, MaxDataLen + 1) :
        ucli_in' = Append(ucli_in, d)
    /\ UNCHANGED <<ucli_pc, ucli_data, ucli_recv, ucli_iter, ucli_emitted,
                   ucli_peer, ucli_out, ucli_got>>

\* UdpSocket::bind(local_addr) returns Ok: the socket is bound and is
\* connected to no peer
UcliBind ==
    /\ ucli_pc = "bind"
    /\ ucli_pc' = "loop"
    /\ ucli_peer' = "none"
    /\ UNCHANGED <<ucli_data, ucli_recv, ucli_iter, ucli_emitted, ucli_in,
                   ucli_out, ucli_got>>

\* UdpSocket::bind(local_addr) returns Err: unwrap() panics
UcliBindErr ==
    /\ ucli_pc = "bind"
    /\ ucli_pc' = "io_panic"
    /\ UNCHANGED <<ucli_data, ucli_recv, ucli_iter, ucli_emitted, ucli_peer,
                   ucli_in, ucli_out, ucli_got>>

\* the loop head and fill_bytes(data); socket.send(data) is called
UcliFill ==
    /\ ucli_pc = "loop"
    /\ LoopContinues(ucli_iter, repeat)
    /\ ucli_data' \in [1..data_size -> RandBytes]
    /\ ucli_pc' = "send"
    /\ UNCHANGED <<ucli_recv, ucli_iter, ucli_emitted, ucli_peer, ucli_in,
                   ucli_out, ucli_got>>

\* socket.send(data) returns Ok: one datagram with the bytes of data goes
\* to the peer the socket is connected to
UcliSend ==
    /\ ucli_pc = "send"
    /\ ucli_out' = Append(ucli_out, [dst |-> ucli_peer, data |-> ucli_data])
    /\ ucli_pc' = "recv"
    /\ UNCHANGED <<ucli_data, ucli_recv, ucli_iter, ucli_emitted, ucli_peer,
                   ucli_in, ucli_got>>

\* socket.send(data) returns Err: unwrap() panics
UcliSendErr ==
    /\ ucli_pc = "send"
    /\ ucli_pc' = "io_panic"
    /\ UNCHANGED <<ucli_data, ucli_recv, ucli_iter, ucli_emitted, ucli_peer,
                   ucli_in, ucli_out, ucli_got>>

\* socket.recv(recv_data) returns Ok(n): one datagram in flight is
\* delivered, cut to the length of recv_data; n is dropped and the bytes
\* of recv_data past n keep what they held
UcliRecv ==
    /\ ucli_pc = "recv"
    /\ \E k \in DOMAIN ucli_in :
        LET d == ucli_in[k]
            n == Min(Len(d), Len(ucli_recv)) IN
        /\ ucli_in' = RemoveAt(ucli_in, k)
        /\ ucli_got' = Append(ucli_got, d)
        /\ ucli_recv' = ReadInto(ucli_recv, 0, Take(d, n))
    /\ ucli_pc' = "assert"
    /\ UNCHANGED <<ucli_data, ucli_iter, ucli_emitted, ucli_peer, ucli_out>>

\* socket.recv(recv_data) returns Err: unwrap() panics
UcliRecvErr ==
    /\ ucli_pc = "recv"
    /\ ucli_pc' = "io_panic"
    /\ UNCHANGED <<ucli_data, ucli_recv, ucli_iter, ucli_emitted, ucli_peer,
                   ucli_in, ucli_out, ucli_got>>

\* assert_eq!(data, recv_data) passes; println! emits the duration
UcliAssertOk ==
    /\ ucli_pc = "assert"
    /\ DataMatches(ucli_data, ucli_recv)
    /\ ucli_emitted' = ucli_emitted + 1
    /\ ucli_iter' = ucli_iter + 1
    /\ ucli_pc' = "loop"
    /\ UNCHANGED <<ucli_data, ucli_recv, ucli_peer, ucli_in, ucli_out,
                   ucli_got>>

\* assert_eq!(data, recv_data) fails: panic
UcliAssertFail ==
    /\ ucli_pc = "assert"
    /\ ~DataMatches(ucli_data, ucli_recv)
    /\ ucli_pc' = "assert_failed"
    /\ UNCHANGED <<ucli_data, ucli_recv, ucli_iter, ucli_emitted, ucli_peer,
                   ucli_in, ucli_out, ucli_got>>

\* the loop is over: start_udp_client returns
UcliReturn ==
    /\ ucli_pc = "loop"
    /\ ~LoopContinues(ucli_iter, repeat)
    /\ ucli_pc' = "done"
    /\ UNCHANGED <<ucli_data, ucli_recv, ucli_iter, ucli_emitted, ucli_peer,
                   ucli_in, ucli_out, ucli_got>>

\* ========================================================= specifications
vars == <<netVars, srvVars, parVars, cliVars, tstVars, fwdVars, udpVars,
          ufwdVars, ucliVars>>

NoRun(r) == role = r /\ data_size = 0 /\ repeat = 0

\* ------------------------------------ tcp-server with NConn peers
EchoInit ==
    /\ NoRun("tcp-server")
    /\ NetInit /\ SrvInit /\ CliIdle /\ TstIdle /\ FwdInit /\ UdpIdle
    /\ UfwdIdle /\ UcliIdle

\* what a step of the tcp-server scenario leaves alone besides netVars
echoRest == <<parVars, cliVars, tstVars, fwdVars, udpVars,
              ufwdVars, ucliVars>>

EchoNext ==
    \E i \in Conns :
        \/ PeerConnect(i) /\ UNCHANGED <<srvVars, echoRest>>
        \/ (\E b \in PeerBytes(i) : EnvSend(C2S(i), b, MaxSend))
              /\ UNCHANGED <<srvVars, echoRest>>
        \/ EnvRecv(S2C(i)) /\ UNCHANGED <<srvVars, echoRest>>
        \/ EnvClose(C2S(i)) /\ UNCHANGED <<srvVars, echoRest>>
        \/ SrvAccept(i) /\ UNCHANGED echoRest
        \/ SrvRead(i) /\ UNCHANGED echoRest
        \/ SrvReadErr(i) /\ UNCHANGED echoRest
        \/ SrvWrite(i) /\ UNCHANGED echoRest
        \/ SrvWriteErr(i) /\ UNCHANGED echoRest
        \/ SrvFlush(i) /\ UNCHANGED echoRest

SpecEcho == EchoInit /\ [][EchoNext]_vars

\* ------------------- tcp-client or tcp-tester against an arbitrary remote
RoundTripInit ==
    /\ role \in {"tcp-client", "tcp-tester"}
    /\ data_size \in 0..MaxDataLen
    /\ repeat \in 0..MaxRepeat
    /\ NetInit /\ SrvInit /\ FwdInit /\ UdpIdle
    /\ UfwdIdle /\ UcliIdle
    /\ IF role = "tcp-client" THEN CliInit /\ TstIdle ELSE CliIdle /\ TstInit

cliRest == <<parVars, srvVars, tstVars, fwdVars, udpVars,
             ufwdVars, ucliVars>>
tstRest == <<parVars, srvVars, cliVars, fwdVars, udpVars,
             ufwdVars, ucliVars>>
envRest == <<parVars, srvVars, cliVars, tstVars, fwdVars, udpVars,
             ufwdVars, ucliVars>>

\* the connection the role reads its replies from
ReplyChan == IF role = "tcp-client" THEN S2C(1) ELSE C2S(Up)

\* the tester is still setting up its two legs
TstSettingUp == tst_pc \in {"bind", "accept", "connect", "sleep", "log"}

\* The remote end takes what the role sent, answers with any bytes, closes,
\* connects to the tester's listener, and starts or stops listening on
\* remote_addr.
RoundTripNext ==
    \/ EnvRecv(C2S(1)) /\ UNCHANGED envRest
    \/ (\E b \in RandBytes : EnvSend(ReplyChan, b, data_size * repeat))
          /\ UNCHANGED envRest
    \/ EnvClose(ReplyChan) /\ UNCHANGED envRest
    \/ tst_pc = "accept" /\ PeerConnect(Up) /\ UNCHANGED envRest
    \/ TstSettingUp /\ RemoteUp /\ UNCHANGED tstRest
    \/ TstSettingUp /\ RemoteDown /\ UNCHANGED tstRest
    \/ CliConnect /\ UNCHANGED cliRest
    \/ CliConnectErr /\ UNCHANGED cliRest
    \/ CliFill /\ UNCHANGED cliRest
    \/ CliWrite /\ UNCHANGED cliRest
    \/ CliWriteErr /\ UNCHANGED cliRest
    \/ CliFlush /\ UNCHANGED cliRest
    \/ CliRead /\ UNCHANGED cliRest
    \/ CliReadErr /\ UNCHANGED cliRest
    \/ CliAssertOk /\ UNCHANGED cliRest
    \/ CliAssertFail /\ UNCHANGED cliRest
    \/ CliShutdown /\ UNCHANGED cliRest
    \/ CliShutdownErr /\ UNCHANGED cliRest
    \/ TstBind /\ UNCHANGED tstRest
    \/ TstSetupErr /\ UNCHANGED tstRest
    \/ TstAccept /\ UNCHANGED tstRest
    \/ TstConnectOk /\ UNCHANGED tstRest
    \/ TstConnectFail /\ UNCHANGED tstRest
    \/ TstSleep /\ UNCHANGED tstRest
    \/ TstLog /\ UNCHANGED tstRest
    \/ TstFill /\ UNCHANGED tstRest
    \/ TstWrite /\ UNCHANGED tstRest
    \/ TstRead /\ UNCHANGED tstRest
    \/ TstIoErr /\ UNCHANGED tstRest
    \/ TstAssertOk /\ UNCHANGED tstRest
    \/ TstAssertFail /\ UNCHANGED tstRest
    \/ TstReturn /\ UNCHANGED tstRest

SpecRoundTrip == RoundTripInit /\ [][RoundTripNext]_vars

\* the steps of the client and of the tester that are not I/O errors: the
\* thread runs whenever it is not blocked in a system call
CliProgress ==
    (CliConnect \/ CliFill \/ CliWrite \/ CliFlush \/ CliRead \/ CliAssertOk
        \/ CliAssertFail \/ CliShutdown)
    /\ UNCHANGED cliRest

TstProgress ==
    (TstBind \/ TstAccept \/ TstConnectOk \/ TstConnectFail \/ TstSleep
        \/ TstLog \/ TstFill \/ TstWrite \/ TstRead \/ TstAssertOk
        \/ TstAssertFail \/ TstReturn)
    /\ UNCHANGED tstRest

FairRoundTrip ==
    SpecRoundTrip /\ WF_vars(CliProgress) /\ WF_vars(TstProgress)

\* ------------------------------------------------- udp-server with peers
UdpSrvInit ==
    /\ NoRun("udp-server")
    /\ NetInit /\ SrvInit /\ CliIdle /\ TstIdle /\ FwdInit /\ UdpInit
    /\ UfwdIdle /\ UcliIdle

udpRest == <<netVars, srvVars, parVars, cliVars, tstVars, fwdVars, ufwdVars,
             ucliVars>>

UdpSrvNext ==
    \/ UdpArrive /\ UNCHANGED udpRest
    \/ UsrvBind /\ UNCHANGED udpRest
    \/ UsrvBindErr /\ UNCHANGED udpRest
    \/ UsrvRecv /\ UNCHANGED udpRest
    \/ UsrvRecvErr /\ UNCHANGED udpRest
    \/ UsrvSend /\ UNCHANGED udpRest
    \/ UsrvSendErr /\ UNCHANGED udpRest

SpecUdpSrv == UdpSrvInit /\ [][UdpSrvNext]_vars

\* ---------------------------------------------- udp-forwarder with peers
UdpFwdInit ==
    /\ NoRun("udp-forwarder")
    /\ NetInit /\ SrvInit /\ CliIdle /\ TstIdle /\ FwdInit /\ UdpIdle
    /\ UfwdInit /\ UcliIdle

ufwdRest == <<netVars, srvVars, parVars, cliVars, tstVars, fwdVars,
              usrv_pc, usrv_buf, usrv_size, usrv_peer, ucliVars>>

UdpFwdNext ==
    \/ UfwdArrive /\ UNCHANGED ufwdRest
    \/ UfwdBind /\ UNCHANGED ufwdRest
    \/ UfwdBindErr /\ UNCHANGED ufwdRest
    \/ UfwdRecv /\ UNCHANGED ufwdRest
    \/ UfwdRecvErr /\ UNCHANGED ufwdRest
    \/ UfwdSend /\ UNCHANGED ufwdRest
    \/ UfwdSendErr /\ UNCHANGED ufwdRest

SpecUdpFwd == UdpFwdInit /\ [][UdpFwdNext]_vars

\* ------------------------- the single-threaded UDP roles, one of them run
UdpRolesInit ==
    /\ role \in {"udp-server", "udp-forwarder"}
    /\ data_size = 0
    /\ repeat = 0
    /\ NetInit /\ SrvInit /\ CliIdle /\ TstIdle /\ FwdInit /\ UcliIdle
    /\ IF role = "udp-server" THEN UdpInit /\ UfwdIdle
                              ELSE UdpIdle /\ UfwdInit

UdpRolesNext ==
    \/ usrv_pc # "off" /\ UdpArrive /\ UNCHANGED udpRest
    \/ UsrvBind /\ UNCHANGED udpRest
    \/ UsrvBindErr /\ UNCHANGED udpRest
    \/ UsrvRecv /\ UNCHANGED udpRest
    \/ UsrvRecvErr /\ UNCHANGED udpRest
    \/ UsrvSend /\ UNCHANGED udpRest
    \/ UsrvSendErr /\ UNCHANGED udpRest
    \/ ufwd_pc # "off" /\ UfwdArrive /\ UNCHANGED ufwdRest
    \/ UfwdBind /\ UNCHANGED ufwdRest
    \/ UfwdBindErr /\ UNCHANGED ufwdRest
    \/ UfwdRecv /\ UNCHANGED ufwdRest
    \/ UfwdRecvErr /\ UNCHANGED ufwdRest
    \/ UfwdSend /\ UNCHANGED ufwdRest
    \/ UfwdSendErr /\ UNCHANGED ufwdRest

SpecUdpRoles == UdpRolesInit /\ [][UdpRolesNext]_vars

\* ------------------ udp-client and the hosts that send to its local_addr
UdpCliInit ==
    /\ role = "udp-client"
    /\ data_size \in 0..MaxDataLen
    /\ repeat \in 0..MaxRepeat
    /\ NetInit /\ SrvInit /\ CliIdle /\ TstIdle /\ FwdInit /\ UdpIdle
    /\ UfwdIdle /\ UcliInit

ucliRest == <<netVars, srvVars, parVars, cliVars, tstVars, fwdVars, udpVars,
              ufwdVars>>

UdpCliNext ==
    \/ UcliArrive /\ UNCHANGED ucliRest
    \/ UcliBind /\ UNCHANGED ucliRest
    \/ UcliBindErr /\ UNCHANGED ucliRest
    \/ UcliFill /\ UNCHANGED ucliRest
    \/ UcliSend /\ UNCHANGED ucliRest
    \/ UcliSendErr /\ UNCHANGED ucliRest
    \/ UcliRecv /\ UNCHANGED ucliRest
    \/ UcliRecvErr /\ UNCHANGED ucliRest
    \/ UcliAssertOk /\ UNCHANGED ucliRest
    \/ UcliAssertFail /\ UNCHANGED ucliRest
    \/ UcliReturn /\ UNCHANGED ucliRest

SpecUdpCli == UdpCliInit /\ [][UdpCliNext]_vars

\* ------------- tcp-client connected to tcp-server over a reliable connection
\* the bytes the client can always write before anything is read back:
\* both directions of the connection full and one byte in the handler's
\* buffer
PipeCap == 2 * Cap + 1

E2EInit ==
    /\ role = "tcp-client"
    /\ data_size \in 0..(PipeCap + 1)
    /\ repeat \in 0..MaxRepeat
    /\ NetInit /\ SrvInit /\ CliInit /\ TstIdle /\ FwdInit /\ UdpIdle
    /\ UfwdIdle /\ UcliIdle

e2eSrvRest == <<parVars, cliVars, tstVars, fwdVars, udpVars,
                ufwdVars, ucliVars>>

\* the steps of the client that are not I/O errors (the assertion cannot
\* fail against the echo server, see C1)
E2ECli ==
    \/ CliConnect /\ UNCHANGED cliRest
    \/ CliFill /\ UNCHANGED cliRest
    \/ CliWrite /\ UNCHANGED cliRest
    \/ CliFlush /\ UNCHANGED cliRest
    \/ CliRead /\ UNCHANGED cliRest
    \/ CliAssertOk /\ UNCHANGED cliRest
    \/ CliShutdown /\ UNCHANGED cliRest

\* the steps of the server's handler of connection 1 that are not I/O errors
E2ESrv ==
    \/ SrvAccept(1) /\ UNCHANGED e2eSrvRest
    \/ SrvRead(1) /\ UNCHANGED e2eSrvRest
    \/ SrvWrite(1) /\ UNCHANGED e2eSrvRest
    \/ SrvFlush(1) /\ UNCHANGED e2eSrvRest

E2ENext == E2ECli \/ E2ESrv

SpecE2E == E2EInit /\ [][E2ENext]_vars

\* both threads run whenever they are not blocked in a system call
FairE2E == SpecE2E /\ WF_vars(E2ECli) /\ WF_vars(E2ESrv)

\* ------------------------ tcp-forwarder with NConn local peers and a remote
FwdSpecInit ==
    /\ NoRun("tcp-forwarder")
    /\ NetInit /\ SrvInit /\ CliIdle /\ TstIdle /\ FwdInit /\ UdpIdle
    /\ UfwdIdle /\ UcliIdle

fwdRest == <<srvVars, parVars, cliVars, tstVars, udpVars,
             ufwdVars, ucliVars>>
fwdEnvRest == <<srvVars, parVars, cliVars, tstVars, fwdVars, udpVars,
                ufwdVars, ucliVars>>

\* the local peers connect once the listener is bound, send and close; the
\* remote end reads what arrives on the upstream connection
FwdNext ==
    \/ FwdBind /\ UNCHANGED fwdRest
    \/ FwdConnect /\ UNCHANGED fwdRest
    \/ FwdSetupErr /\ UNCHANGED fwdRest
    \/ EnvRecv(C2S(Up)) /\ UNCHANGED fwdEnvRest
    \/ \E i \in Conns :
        \/ fwd_main # "bind" /\ PeerConnect(i) /\ UNCHANGED fwdEnvRest
        \/ (\E b \in PeerBytes(i) : EnvSend(C2S(i), b, MaxSend))
              /\ UNCHANGED fwdEnvRest
        \/ EnvClose(C2S(i)) /\ UNCHANGED fwdEnvRest
        \/ FwdAccept(i) /\ UNCHANGED fwdRest
        \/ FwdRead(i) /\ UNCHANGED fwdRest
        \/ FwdReadErr(i) /\ UNCHANGED fwdRest
        \/ FwdLock(i) /\ UNCHANGED fwdRest
        \/ FwdLockPoisoned(i) /\ UNCHANGED fwdRest
        \/ FwdWrite(i) /\ UNCHANGED fwdRest
        \/ FwdWriteErr(i) /\ UNCHANGED fwdRest
        \/ FwdFlush(i) /\ UNCHANGED fwdRest

SpecFwd == FwdSpecInit /\ [][FwdNext]_vars

\* ---------------------- tcp-forwarder with exactly one local session
\* the steps of the forwarder that are not I/O errors, with connection 1
\* the only local connection
Fwd1Run ==
    \/ FwdBind /\ UNCHANGED fwdRest
    \/ FwdConnect /\ UNCHANGED fwdRest
    \/ FwdAccept(1) /\ UNCHANGED fwdRest
    \/ FwdRead(1) /\ UNCHANGED fwdRest
    \/ FwdLock(1) /\ UNCHANGED fwdRest
    \/ FwdWrite(1) /\ UNCHANGED fwdRest
    \/ FwdFlush(1) /\ UNCHANGED fwdRest

Fwd1Err ==
    \/ FwdSetupErr /\ UNCHANGED fwdRest
    \/ FwdReadErr(1) /\ UNCHANGED fwdRest
    \/ FwdWriteErr(1) /\ UNCHANGED fwdRest

Fwd1Peer ==
    \/ fwd_main # "bind" /\ PeerConnect(1) /\ UNCHANGED fwdEnvRest
    \/ (\E b \in PeerBytes(1) : EnvSend(C2S(1), b, MaxSend))
          /\ UNCHANGED fwdEnvRest
    \/ EnvClose(C2S(1)) /\ UNCHANGED fwdEnvRest

Fwd1Remote == EnvRecv(C2S(Up)) /\ UNCHANGED fwdEnvRest

Fwd1Next == Fwd1Run \/ Fwd1Err \/ Fwd1Peer \/ Fwd1Remote

SpecFwd1 == FwdSpecInit /\ [][Fwd1Next]_vars

\* the forwarder's threads run whenever they are not blocked, and the
\* remote end keeps reading the upstream connection
FairFwd1 == SpecFwd1 /\ WF_vars(Fwd1Run) /\ WF_vars(Fwd1Remote)

\* ------- tcp-forwarder with one local session and a remote that answers
\* the remote end writes bytes to the forwarder on the upstream connection
Fwd1Reply ==
    (\E b \in PeerBytes(Up) : EnvSend(S2C(Up), b, MaxSend))
    /\ UNCHANGED fwdEnvRest

FwdReplyNext == Fwd1Run \/ Fwd1Err \/ Fwd1Peer \/ Fwd1Remote \/ Fwd1Reply

SpecFwdReply == FwdSpecInit /\ [][FwdReplyNext]_vars

\* ------------ tcp-tester with a remote end that also answers on the send
\* leg and a second host that connects to the tester's listener after the
\* first (connection Up is the first the listener yields)
TstLegsInit ==
    /\ role = "tcp-tester"
    /\ data_size \in 0..MaxDataLen
    /\ repeat \in 0..MaxRepeat
    /\ NetInit /\ SrvInit /\ CliIdle /\ TstInit /\ FwdInit /\ UdpIdle
    /\ UfwdIdle /\ UcliIdle

TstLegsNext ==
    \/ EnvRecv(C2S(1)) /\ UNCHANGED envRest
    \/ (\E b \in RandBytes : EnvSend(C2S(Up), b, data_size * repeat))
          /\ UNCHANGED envRest
    \/ EnvSend(S2C(1), 1, 1) /\ UNCHANGED envRest
    \/ tst_pc = "accept" /\ PeerConnect(Up) /\ UNCHANGED envRest
    \/ conn[Up] # "none" /\ PeerConnect(2) /\ UNCHANGED envRest
    \/ TstSettingUp /\ RemoteUp /\ UNCHANGED tstRest
    \/ TstSettingUp /\ RemoteDown /\ UNCHANGED tstRest
    \/ TstBind /\ UNCHANGED tstRest
    \/ TstSetupErr /\ UNCHANGED tstRest
    \/ TstAccept /\ UNCHANGED tstRest
    \/ TstConnectOk /\ UNCHANGED tstRest
    \/ TstConnectFail /\ UNCHANGED tstRest
    \/ TstSleep /\ UNCHANGED tstRest
    \/ TstLog /\ UNCHANGED tstRest
    \/ TstFill /\ UNCHANGED tstRest
    \/ TstWrite /\ UNCHANGED tstRest
    \/ TstRead /\ UNCHANGED tstRest
    \/ TstIoErr /\ UNCHANGED tstRest
    \/ TstAssertOk /\ UNCHANGED tstRest
    \/ TstAssertFail /\ UNCHANGED tstRest
    \/ TstReturn /\ UNCHANGED tstRest

SpecTstLegs == TstLegsInit /\ [][TstLegsNext]_vars

\* ------------------- tcp-tester and tcp-forwarder connected to each other
\* the tester runs with remote_addr = the forwarder's local_addr, the
\* forwarder with remote_addr = the tester's local_addr: connection Up is
\* the forwarder's remote_stream and the tester's recv_stream, connection 1
\* is the tester's send_stream and the from_stream of handler 1
LoopInit ==
    /\ role = "tcp-tester"
    /\ \/ data_size \in 0..MaxDataLen /\ repeat \in 0..MaxRepeat
       \/ data_size = PipeCap + 1 /\ repeat = 1
    /\ NetInit /\ SrvInit /\ CliIdle /\ TstInit /\ FwdInit /\ UdpIdle
    /\ UfwdIdle /\ UcliIdle

loopFwdRest == <<srvVars, parVars, cliVars, tstVars, udpVars, ufwdVars,
                 ucliVars>>
tstButRemote == <<tst_pc, tst_data, tst_buf, tst_off, tst_iter, tst_sends,
                  tst_emitted, tst_fails, tst_logs>>
loopBindRest == <<srvVars, parVars, cliVars, udpVars, ufwdVars, ucliVars>>

\* the steps of the tester that are not I/O errors; its accept returns
\* when the forwarder, which has bound its listener by then, connects, so
\* no connect attempt of the tester fails
LoopTst ==
    \/ TstBind /\ UNCHANGED tstRest
    \/ TstAccept /\ UNCHANGED tstRest
    \/ TstConnectOk /\ UNCHANGED tstRest
    \/ TstFill /\ UNCHANGED tstRest
    \/ TstWrite /\ UNCHANGED tstRest
    \/ TstRead /\ UNCHANGED tstRest
    \/ TstAssertOk /\ UNCHANGED tstRest
    \/ TstReturn /\ UNCHANGED tstRest

\* the steps of the forwarder that are not I/O errors; it is started when
\* the tester is listening, and from its bind on the tester's connect to
\* it succeeds
LoopFwd ==
    \/ /\ tst_pc # "bind"
       /\ FwdBind
       /\ remote_up' = TRUE
       /\ UNCHANGED <<tstButRemote, loopBindRest>>
    \/ FwdConnect /\ UNCHANGED loopFwdRest
    \/ FwdAccept(1) /\ UNCHANGED loopFwdRest
    \/ FwdRead(1) /\ UNCHANGED loopFwdRest
    \/ FwdLock(1) /\ UNCHANGED loopFwdRest
    \/ FwdWrite(1) /\ UNCHANGED loopFwdRest
    \/ FwdFlush(1) /\ UNCHANGED loopFwdRest

LoopNext == LoopTst \/ LoopFwd

SpecLoop == LoopInit /\ [][LoopNext]_vars

\* the tester's thread and the forwarder's threads run whenever they are
\* not blocked in a system call
FairLoop == SpecLoop /\ WF_vars(LoopTst) /\ WF_vars(LoopFwd)

\* ================================================================= claims

\* C1 (tcp-server, per connection): the bytes the handler has written back
\* are a prefix of the bytes it has read from that connection, which are a
\* prefix of what the peer sent; while a batch is being written the bytes
\* still to go are exactly the rest of that read; every read is written
\* back in full and flushed before the next read is issued; and once the
\* handler has read everything the peer sent and is back at its read, the
\* reply stream (received by the peer or in flight to it) equals the sent
\* stream.
C1_EchoPrefix ==
    \A i \in Conns :
        /\ IsPrefix(wr[S2C(i)], rd[C2S(i)])
        /\ IsPrefix(rd[C2S(i)], wr[C2S(i)])
        /\ srv_pc[i] = "write" =>
              /\ srv_size[i] \in 1..MaxDataSize
              /\ srv_off[i] < srv_size[i]
              /\ wr[S2C(i)] \o SubSeq(srv_buf[i], srv_off[i] + 1, srv_size[i])
                    = rd[C2S(i)]
        /\ srv_pc[i] \in {"read", "flush"} => wr[S2C(i)] = rd[C2S(i)]
        /\ (srv_pc[i] = "read" /\ rd[C2S(i)] = wr[C2S(i)]) =>
              rd[S2C(i)] \o chan[S2C(i)] = wr[C2S(i)]

\* a handler is back at its read after two reads, the last of one byte
\* into its larger buffer, and the peer has received all it sent
C1_Witness ==
    \E i \in Conns :
        /\ srv_pc[i] = "read"
        /\ srv_size[i] = 1
        /\ Len(wr[C2S(i)]) = 2
        /\ rd[S2C(i)] = wr[C2S(i)]

\* C2 (tcp-server, concurrent handlers): under any interleaving, every
\* byte written to connection i was read from connection i before, and
\* the buffer of handler i holds only bytes of connection i (or its
\* initial zeros): nothing of a connection j # i reaches connection i.
C2_NoCrossTalk ==
    \A i \in Conns :
        /\ \A k \in DOMAIN wr[S2C(i)] :
              /\ wr[S2C(i)][k] \in PeerBytes(i)
              /\ \E m \in DOMAIN rd[C2S(i)] : rd[C2S(i)][m] = wr[S2C(i)][k]
        /\ \A k \in DOMAIN srv_buf[i] : srv_buf[i][k] \in PeerBytes(i) \cup {0}

\* all handlers are in the middle of a write_all at the same time, each
\* having echoed bytes already
C2_Witness ==
    \A i \in Conns :
        /\ srv_pc[i] = "write"
        /\ Len(wr[S2C(i)]) >= 1

\* the k-th block of n bytes of the stream s
Chunk(s, k, n) == SubSeq(s, (k - 1) * n + 1, k * n)

\* the k-th reply has arrived in full and differs from the k-th payload
Mismatch(sent, got, k) ==
    /\ Len(got) >= k * data_size
    /\ Len(sent) >= k * data_size
    /\ Chunk(got, k, data_size) # Chunk(sent, k, data_size)

\* the round-trip discipline of a run that has emitted `emitted`
\* durations, is at pc, has written `sent` and has read `got`
RoundTripOk(pc, emitted, sent, got) ==
    /\ \A k \in 1..emitted :
          /\ Len(got) >= k * data_size
          /\ Len(sent) >= k * data_size
          /\ Chunk(got, k, data_size) = Chunk(sent, k, data_size)
    /\ \A k \in 1..repeat :
          Mismatch(sent, got, k) =>
              /\ emitted = k - 1
              /\ Len(sent) = k * data_size
              /\ pc \in {"assert", "assert_failed"}
    /\ pc = "assert_failed" => Mismatch(sent, got, emitted + 1)

\* C3 (tcp-client and tcp-tester): the k-th duration is emitted only after
\* the k-th data_size-byte reply has been read in full and is byte for
\* byte the k-th payload written; when a full reply differs from its
\* payload the run is at the assertion or has failed it (a panic), has
\* emitted no duration for that iteration and has written nothing after
\* that payload; and the assertion fails only on such a mismatch.
C3_RoundTripIdentity ==
    /\ RoundTripOk(cli_pc, cli_emitted, wr[C2S(1)], rd[S2C(1)])
    /\ RoundTripOk(tst_pc, tst_emitted, wr[C2S(1)], rd[C2S(Up)])

\* the client emitted one duration and then failed the assertion on the
\* two-byte reply of its second iteration
C3_Witness ==
    /\ role = "tcp-client"
    /\ data_size = 2
    /\ cli_emitted = 1
    /\ cli_pc = "assert_failed"

CliTerminated == cli_pc \in {"done", "io_panic", "assert_failed"}

C4_Counts ==
    role = "tcp-client" =>
        /\ cli_sends <= repeat
        /\ cli_emitted <= repeat
        /\ cli_emitted <= cli_sends
        /\ cli_sends <= cli_emitted + 1
        /\ Len(wr[C2S(1)]) <= cli_sends * data_size
        /\ cli_pc = "done" =>
              /\ cli_sends = repeat
              /\ cli_emitted = repeat
              /\ Len(wr[C2S(1)]) = repeat * data_size
        /\ eof[C2S(1)] <=> cli_pc = "done"

C4_Final ==
    CliTerminated => /\ UNCHANGED cliVars
                     /\ wr'[C2S(1)] = wr[C2S(1)]

\* C4 (tcp-client): payloads sent and durations emitted never exceed
\* `repeat`; a run that ends normally has sent exactly `repeat` payloads,
\* emitted exactly `repeat` durations and shut the connection down; and a
\* run that has ended, normally or by the panic of an I/O error or of the
\* assertion, does nothing more: no retry, no further send.
C4_ExactlyRepeat == [](C4_Counts) /\ [][C4_Final]_vars

\* the client ended normally after two two-byte round trips
C4_Witness ==
    /\ role = "tcp-client"
    /\ data_size = 2
    /\ repeat = 2
    /\ cli_pc = "done"

\* C5 (tcp-client against tcp-server, no I/O error): whatever data_size
\* and repeat, the client eventually has emitted `repeat` durations and
\* has terminated.
C5_Completes == <>(cli_pc = "done" /\ cli_emitted = repeat)

\* the state the run of C5 stops in: the client is blocked in write_all
\* because the direction to the server is full, while the handler is
\* blocked in write_all because the direction to the client is full
C5_Stuck ==
    /\ cli_pc = "write"
    /\ Len(chan[C2S(1)]) = Cap
    /\ srv_pc[1] = "write"
    /\ Len(chan[S2C(1)]) = Cap

\* the handlers inside write_all / flush on the upstream
Writing == {i \in Conns : fwd_pc[i] \in {"write", "flush"}}

\* the bytes on the upstream that came from connection i, in order
UpBytesOf(i) == SelectSeq(wr[C2S(Up)], LAMBDA b : b \in PeerBytes(i))

\* C6 (tcp-forwarder, any number of handlers): at most one handler at a
\* time is writing to the upstream, and it holds the lock; the bytes of
\* one read-batch are contiguous on the upstream (no byte of another
\* handler's batch falls between them); each byte on the upstream is a
\* byte of the batch it is attributed to; and the bytes of handler i
\* appear on the upstream in the order handler i read them.
C6_WriteSerialized ==
    /\ Cardinality(Writing) <= 1
    /\ \A i \in Writing : lock_holder = i
    /\ Len(up_owner) = Len(wr[C2S(Up)])
    /\ \A p \in DOMAIN up_owner, r \in DOMAIN up_owner :
          (p < r /\ up_owner[p] = up_owner[r]) =>
              \A q \in p..r : up_owner[q] = up_owner[p]
    /\ \A p \in DOMAIN up_owner : wr[C2S(Up)][p] \in PeerBytes(up_owner[p][1])
    /\ \A i \in Conns : IsPrefix(UpBytesOf(i), rd[C2S(i)])

\* one handler is in the middle of a two-byte batch on the upstream while
\* another handler waits for the lock with its own batch
C6_Witness ==
    \E i \in Conns, j \in Conns :
        /\ fwd_pc[i] = "write"
        /\ fwd_size[i] = 2
        /\ fwd_off[i] = 1
        /\ fwd_pc[j] = "lock"
        /\ fwd_size[j] >= 1

Fwd1Failed == fwd_main = "panicked" \/ fwd_pc[1] \in {"ended", "panicked"}

\* C7 (tcp-forwarder, one local session): the bytes written to the
\* upstream are always a prefix of the bytes the local peer sent, and,
\* unless an I/O error occurs, the upstream again and again holds
\* everything the peer has sent (the peer sends finitely much, so every
\* byte it sent is eventually written upstream).
C7_RelayCorrect ==
    /\ [](IsPrefix(wr[C2S(Up)], wr[C2S(1)]))
    /\ []<>(Fwd1Failed \/ wr[C2S(Up)] = wr[C2S(1)])

\* the peer's two bytes reached the remote end in two batches
C7_Witness ==
    /\ Len(wr[C2S(1)]) = 2
    /\ rd[C2S(Up)] = wr[C2S(1)]
    /\ fwd_nbatch[1] = 2

\* C8 (udp-server): the k-th datagram sent answers the k-th datagram
\* received: it goes to the address that one came from and carries the
\* bytes received (all of them when they fit the buffer, never more than
\* were received); every answer is sent before the next datagram is
\* received, so at the receive call nothing is unanswered and at most one
\* datagram ever is (the one being answered, or the one whose send_to
\* failed and ended the server).
C8_UdpEcho ==
    /\ Len(dg_sent) <= Len(dg_rcvd)
    /\ Len(dg_rcvd) <= Len(dg_sent) + 1
    /\ usrv_pc \in {"bind", "recv", "ended"} => Len(dg_sent) = Len(dg_rcvd)
    /\ usrv_pc \in {"send", "panicked"} /\ dg_rcvd # <<>> =>
          Len(dg_rcvd) = Len(dg_sent) + 1
    /\ \A k \in DOMAIN dg_sent :
          /\ dg_sent[k].dst = dg_rcvd[k].src
          /\ IsPrefix(dg_sent[k].data, dg_rcvd[k].data)
          /\ Len(dg_rcvd[k].data) <= MaxDataSize =>
                dg_sent[k].data = dg_rcvd[k].data

\* two peers were answered in turn, the second with a shorter datagram
\* than the first
C8_Witness ==
    /\ Len(dg_sent) = 2
    /\ dg_sent[1].dst # dg_sent[2].dst
    /\ Len(dg_sent[1].data) = 2
    /\ Len(dg_sent[2].data) = 1
    /\ usrv_pc = "recv"

TstRetrying == tst_pc \in {"connect", "sleep", "log"}

C9_Logged ==
    /\ tst_pc \in {"sleep", "log"} => tst_logs + 1 = tst_fails
    /\ tst_pc \notin {"sleep", "log"} => tst_logs = tst_fails
    /\ TstRetrying => conn[1] = "none"

C9_Retry ==
    /\ TstRetrying => tst_pc' \in {"connect", "sleep", "log", "loop"}
    /\ (tst_pc = "connect" /\ tst_pc' # "connect") =>
          \/ remote_up /\ tst_pc' = "loop" /\ conn'[1] # "none"
          \/ ~remote_up /\ tst_pc' = "sleep" /\ tst_fails' = tst_fails + 1
    /\ tst_pc = "sleep" => tst_pc' \in {"sleep", "log"}
    /\ tst_pc = "log" => tst_pc' \in {"log", "connect"}

\* C9 (tcp-tester, connect leg): a failed connect is never fatal: from the
\* retry loop the tester only ever goes on to its next attempt or, after a
\* successful connect, to the measurement loop; each failed attempt is
\* followed by the sleep and exactly one "trying to connect" line before
\* the next attempt; an attempt made while the remote is listening
\* succeeds; and if the remote stays available from some attempt on, the
\* tester eventually holds its send leg.
C9_RetryConnect ==
    /\ [](C9_Logged)
    /\ [][C9_Retry]_vars
    /\ []((tst_pc = "connect" /\ []remote_up) => <>(conn[1] # "none"))

\* the tester connected after two failed attempts, each logged
C9_Witness ==
    /\ tst_pc = "loop"
    /\ tst_fails = 2
    /\ tst_logs = 2
    /\ conn[1] = "pending"

C10_NoBlocking ==
    data_size = 0 =>
        /\ cli_pc \notin {"write", "read", "assert_failed"}
        /\ tst_pc \notin {"write", "read", "assert_failed"}
        /\ rd[S2C(1)] = <<>>
        /\ rd[C2S(Up)] = <<>>
        /\ (cli_pc = "io_panic" /\ conn[1] # "none") => cli_emitted = repeat

\* C10 (tcp-client and tcp-tester, data_size = 0): no iteration waits for
\* the peer: the run is never inside a write or a read, reads nothing and
\* never fails the assertion; once it is in its measurement loop it
\* emits `repeat` durations and terminates (the tester by returning, the
\* client by its shutdown call), whatever the peer does or does not send.
C10_ZeroSize ==
    /\ [](C10_NoBlocking)
    /\ (data_size = 0 /\ cli_pc = "loop") ~>
          (cli_emitted = repeat /\ cli_pc \in {"done", "io_panic"})
    /\ (data_size = 0 /\ tst_pc = "loop") ~>
          (tst_emitted = repeat /\ tst_pc = "done")

\* the tester finished two zero-length round trips although the remote
\* never sent a byte on the receive leg
C10_Witness ==
    /\ role = "tcp-tester"
    /\ data_size = 0
    /\ repeat = 2
    /\ tst_emitted = 2
    /\ tst_pc = "done"
    /\ wr[C2S(Up)] = <<>>

\* the handlers that are waiting at to_stream.lock() while no guard is held
\* can take the lock
C11_CanLock ==
    \A j \in Conns : (fwd_pc[j] = "lock" /\ lock_holder = 0) => ~poisoned

\* a handler dies by a panic only through a failure of its own write or
\* flush on the upstream
C11_OwnFailure ==
    \A j \in Conns :
        (fwd_pc[j] # "panicked" /\ fwd_pc'[j] = "panicked") =>
            fwd_pc[j] \in {"write", "flush"}

\* C11 (tcp-forwarder, failure isolation): a write or flush failure on the
\* upstream inside one handler terminates that handler only: every other
\* handler, running already or accepted later, that has read a batch can
\* still acquire the upstream lock, and none of them is terminated by the
\* failure of another.
C11_FailureIsolated == [](C11_CanLock) /\ [][C11_OwnFailure]_vars

\* the state that breaks C11: handler j panicked at to_stream.lock() with
\* its batch unwritten, after the write of another handler i had failed
C11_Collateral ==
    \E i \in Conns, j \in Conns :
        /\ i # j
        /\ poisoned
        /\ fwd_pc[i] = "panicked"
        /\ fwd_pc[j] = "panicked"
        /\ fwd_size[j] >= 1
        /\ fwd_off[j] = 0

\* the read of handler i returns without a byte, at end of stream (zero
\* bytes after the peer closed) or with an error: the handler ends and its
\* side of the connection is closed
C12_LoopEnds ==
    \A i \in Conns :
        (/\ srv_pc[i] = "read"
         /\ srv_pc'[i] # "read"
         /\ rd'[C2S(i)] = rd[C2S(i)]) =>
            /\ srv_pc'[i] = "ended"
            /\ eof'[S2C(i)]

\* a handler that has ended reads and writes nothing more
C12_Quiet ==
    \A i \in Conns :
        srv_pc[i] = "ended" =>
            /\ srv_pc'[i] = "ended"
            /\ rd'[C2S(i)] = rd[C2S(i)]
            /\ wr'[S2C(i)] = wr[S2C(i)]

\* C12 (tcp-server, handler termination): when the read of a handler
\* reports end of stream (zero bytes after the peer closed) or fails, the
\* handler's loop ends, the handler terminates and the connection is
\* closed; afterwards it performs no read and no write on that connection.
C12_HandlerEnds == [][C12_LoopEnds]_vars /\ [][C12_Quiet]_vars

\* the state that breaks C12: after the peer closed, the read returned
\* Ok(0) and the handler is in its loop body, about to read again
C12_Spinning ==
    \E i \in Conns :
        /\ eof[C2S(i)]
        /\ chan[C2S(i)] = <<>>
        /\ srv_pc[i] = "flush"
        /\ srv_size[i] = 0
        /\ ~eof[S2C(i)]

C13_StaleTail ==
    /\ ucli_emitted = 2
    /\ Len(ucli_got[2]) < data_size
    /\ ucli_got[1] = ucli_out[1].data

\* a state that breaks C13: a duration was emitted for a reply longer than
\* data_size
C13_Truncated ==
    /\ ucli_emitted >= 1
    /\ Len(ucli_got[1]) > data_size

\* C14 (udp-client, completion): in every iteration one datagram of
\* data_size bytes goes to the target: the socket has a destination peer
\* at every send, and every datagram sent carries the payload to that
\* peer; the loop makes no more than `repeat` sends, and a run that has
\* returned has sent `repeat` datagrams and emitted `repeat` durations.
C14_SendsToTarget ==
    /\ ucli_pc = "send" => ucli_peer # "none"
    /\ \A k \in DOMAIN ucli_out :
          /\ ucli_out[k].dst # "none"
          /\ Len(ucli_out[k].data) = data_size
    /\ Len(ucli_out) <= repeat
    /\ ucli_emitted <= Len(ucli_out)
    /\ ucli_pc = "done" =>
          /\ Len(ucli_out) = repeat
          /\ ucli_emitted = repeat

\* the state that breaks C14: the first socket.send is called on a socket
\* that was bound and never connected
C14_NoDestination ==
    /\ repeat >= 1
    /\ ucli_pc = "send"
    /\ ucli_iter = 0
    /\ ucli_peer = "none"

\* a receive call or a send call of the role fails: the role leaves the
\* call without a datagram delivered or sent
C15_RecvOrSendFails ==
    \/ /\ usrv_pc \in {"recv", "send"}
       /\ usrv_pc' # usrv_pc
       /\ dg_rcvd' = dg_rcvd
       /\ dg_sent' = dg_sent
    \/ /\ ufwd_pc \in {"recv", "send"}
       /\ ufwd_pc' # ufwd_pc
       /\ dg_rcvd' = dg_rcvd
       /\ dg_sent' = dg_sent

\* C15 (udp-server and udp-forwarder): every receive failure and every
\* send failure ends the role in its error state (the panic that makes the
\* process exit non-zero), and the role never returns normally: its loop
\* has no other exit than an I/O error.
C15_AbnormalExit ==
    /\ [](usrv_pc # "ended" /\ ufwd_pc # "ended")
    /\ [][C15_RecvOrSendFails =>
             (usrv_pc' \in {"off", "panicked"}
                 /\ ufwd_pc' \in {"off", "panicked"})]_vars

\* the state that breaks C15: the role returned from its function after
\* recv / recv_from had failed, every datagram received before answered
C15_ReturnedNormally ==
    /\ usrv_pc = "ended" \/ ufwd_pc = "ended"
    /\ Len(dg_rcvd) >= 1
    /\ Len(dg_sent) = Len(dg_rcvd)

\* C16 (udp-forwarder): the k-th datagram sent forwards the k-th datagram
\* received: it goes to remote_addr, whatever address that one came from
\* (remote_addr itself included), never back to a source other than
\* remote_addr, and carries the bytes received (all of them when they fit
\* the buffer, never more than were received); each datagram is forwarded
\* before the next is received, so the datagrams sent never outnumber the
\* datagrams received and at most one is not forwarded (the one in hand,
\* or the one whose send_to failed).
C16_OneWayRelay ==
    /\ Len(dg_sent) <= Len(dg_rcvd)
    /\ Len(dg_rcvd) <= Len(dg_sent) + 1
    /\ ufwd_pc \in {"bind", "recv", "ended"} => Len(dg_sent) = Len(dg_rcvd)
    /\ \A k \in DOMAIN dg_sent :
          /\ dg_sent[k].dst = RemoteAddr
          /\ dg_rcvd[k].src # RemoteAddr => dg_sent[k].dst # dg_rcvd[k].src
          /\ IsPrefix(dg_sent[k].data, dg_rcvd[k].data)
          /\ Len(dg_rcvd[k].data) <= MaxDataSize =>
                dg_sent[k].data = dg_rcvd[k].data

\* a datagram of a local peer and a datagram that came from remote_addr
\* itself were both forwarded, and the forwarder is receiving again
C16_Witness ==
    /\ Len(dg_sent) = 2
    /\ dg_rcvd[1].src = "p1"
    /\ dg_rcvd[2].src = RemoteAddr
    /\ dg_sent[1].data # dg_sent[2].data
    /\ ufwd_pc = "recv"

\* the lock is held by exactly the handler that is inside write_all or
\* flush: never by a handler that is waiting in read, has not started or
\* is gone
C17_HeldWhileWriting ==
    /\ lock_holder # 0 => fwd_pc[lock_holder] \in {"write", "flush"}
    /\ \A i \in Conns : fwd_pc[i] \in {"write", "flush"} => lock_holder = i
    /\ \A i \in Conns :
          (/\ fwd_pc[i] = "lock"
           /\ \A j \in Conns \ {i} : fwd_pc[j] \notin {"write", "flush"}) =>
              lock_holder = 0

\* one acquisition per completed read, one release per batch: a read that
\* returns Ok takes the handler to the lock; the lock is taken from there
\* only, by the step that starts the write of that batch; it is given up
\* by the step that ends the flush of that batch (or by the panic of a
\* failed write), after which the handler is back in read
C17_OncePerRead ==
    \A i \in Conns :
        /\ (fwd_pc[i] = "read" /\ fwd_pc'[i] \notin {"read", "ended"}) =>
              (fwd_pc'[i] = "lock" /\ lock_holder' # i)
        /\ (lock_holder # i /\ lock_holder' = i) =>
              (fwd_pc[i] = "lock" /\ fwd_pc'[i] \in {"write", "flush"})
        /\ (lock_holder = i /\ lock_holder' # i) =>
              /\ lock_holder' = 0
              /\ \/ fwd_pc[i] = "flush" /\ fwd_pc'[i] = "read"
                 \/ fwd_pc[i] = "write" /\ fwd_pc'[i] = "panicked"
        /\ (fwd_pc[i] = "flush" /\ fwd_pc'[i] # "flush") =>
              (lock_holder = i /\ lock_holder' = 0)

\* C17 (tcp-forwarder, lock scope): a handler acquires the upstream lock
\* once per completed local read and releases it after the write and
\* flush of that batch; no handler holds the lock while it waits in read,
\* so a local peer that sends nothing never keeps the lock from a handler
\* that has a batch to write.
C17_LockScope == [](C17_HeldWhileWriting) /\ [][C17_OncePerRead]_vars

\* handler j waits in read for a peer that has connected and sent nothing,
\* while handler i, which released the lock after its first batch, holds
\* it again for its second
C17_Witness ==
    \E i \in Conns, j \in Conns :
        /\ i # j
        /\ fwd_pc[j] = "read"
        /\ conn[j] = "open"
        /\ wr[C2S(j)] = <<>>
        /\ ~eof[C2S(j)]
        /\ fwd_nbatch[i] = 2
        /\ fwd_pc[i] = "write"
        /\ lock_holder = i

\* the upstream exists exactly from the connect step of the main thread
\* on, which follows the bind; handlers exist only after it; the forwarder
\* has read nothing from the upstream and written nothing to a local
\* connection; what it wrote upstream it read from its local connection
C18_OneWay ==
    /\ conn[Up] # "none" <=> fwd_main = "serve"
    /\ \A i \in Conns :
          /\ fwd_pc[i] # "idle" => (fwd_main = "serve" /\ conn[Up] # "none")
          /\ conn[i] = "open" => conn[Up] # "none"
          /\ wr[S2C(i)] = <<>>
    /\ rd[S2C(Up)] = <<>>
    /\ IsPrefix(wr[C2S(Up)], rd[C2S(1)])

\* the upstream is connected from the state after the bind, once, and is
\* never connected again
C18_ConnectedOnce ==
    /\ (conn[Up] = "none" /\ conn'[Up] # "none") =>
          (fwd_main = "connect" /\ fwd_main' = "serve")
    /\ conn[Up] # "none" => conn'[Up] = conn[Up]
    /\ fwd_main = "serve" => fwd_main' = "serve"

\* C18 (tcp-forwarder, direction and upstream lifetime): one upstream
\* connection is established, after the listener is bound and before any
\* local connection is accepted, and never again; the forwarder writes
\* only to the upstream and reads only from local connections: it never
\* reads from the upstream and never writes to a local connection.
C18_Direction == [](C18_OneWay) /\ [][C18_ConnectedOnce]_vars

\* the forwarder has relayed two bytes of its local peer to the upstream
\* while two bytes the remote end wrote on the upstream lie there unread
C18_Witness ==
    /\ Len(wr[C2S(Up)]) = 2
    /\ Len(chan[S2C(Up)]) = 2
    /\ fwd_pc[1] = "read"
    /\ conn[1] = "open"

\* the receive leg is accepted before any connect attempt and before any
\* payload; no other inbound connection is accepted; payload bytes go to
\* the send leg only, when both legs exist; nothing is written to the
\* receive leg and nothing is read from the send leg
C19_Legs ==
    /\ tst_pc \in {"connect", "sleep", "log", "loop", "write", "read",
                   "assert", "done", "assert_failed"} => conn[Up] = "open"
    /\ (tst_fails > 0 \/ conn[1] # "none") => conn[Up] = "open"
    /\ \A k \in Conns \ {1} : conn[k] # "open"
    /\ (tst_sends > 0 \/ wr[C2S(1)] # <<>>) =>
          (conn[Up] = "open" /\ conn[1] # "none")
    /\ Len(wr[C2S(1)]) <= tst_sends * data_size
    /\ wr[S2C(Up)] = <<>>
    /\ rd[S2C(1)] = <<>>
    /\ Len(rd[C2S(Up)]) <= tst_sends * data_size

\* the accept is made once, from the state after the bind, before the
\* first connect attempt; the send leg is connected after it
C19_Order ==
    /\ (conn[Up] # "open" /\ conn'[Up] = "open") =>
          (tst_pc = "accept" /\ tst_fails = 0 /\ conn[1] = "none")
    /\ conn[Up] = "open" => conn'[Up] = "open"
    /\ (conn[1] = "none" /\ conn'[1] # "none") =>
          (tst_pc = "connect" /\ conn[Up] = "open")

\* C19 (tcp-tester, leg discipline): the tester accepts exactly one
\* inbound connection, before its first connect attempt to remote_addr; it
\* sends no payload byte until both legs are established; in every
\* iteration the payload is written to the send leg only and the reply is
\* read from the accepted receive leg only.
C19_LegDiscipline == [](C19_Legs) /\ [][C19_Order]_vars

\* the tester is in its second read on the receive leg, after a failed
\* connect attempt, while a second inbound connection waits unaccepted and
\* a byte the remote end wrote on the send leg lies there unread
C19_Witness ==
    /\ tst_pc = "read"
    /\ tst_emitted = 1
    /\ tst_fails >= 1
    /\ conn[2] = "pending"
    /\ Len(chan[S2C(1)]) = 1

\* the measurement loop runs with both legs in place, the receive leg
\* being the forwarder's upstream; what arrives on the receive leg is what
\* was sent on the send leg, and a reply read in full equals the payload
C20_Relayed ==
    /\ conn[Up] # "none" => fwd_main = "serve"
    /\ tst_pc \in {"loop", "write", "read", "assert", "done"} =>
          (conn[Up] = "open" /\ conn[1] # "none")
    /\ fwd_pc[1] # "idle" => conn[1] = "open"
    /\ IsPrefix(wr[C2S(Up)], wr[C2S(1)])
    /\ IsPrefix(rd[C2S(Up)], wr[C2S(Up)])
    /\ tst_pc = "assert" => DataMatches(tst_data, tst_buf)
    /\ RoundTripOk(tst_pc, tst_emitted, wr[C2S(1)], rd[C2S(Up)])

\* C20 (tcp-tester through tcp-forwarder, tester started first, no I/O
\* error): both legs become established, the forwarder's upstream being
\* the tester's receive leg and the tester's send leg being accepted by
\* the forwarder; every iteration receives on the receive leg exactly the
\* bytes it sent on the send leg; and the tester emits `repeat` durations
\* and terminates.
C20_ThroughForwarder ==
    /\ [](C20_Relayed)
    /\ <>(conn[Up] = "open" /\ conn[1] = "open")
    /\ <>(tst_pc = "done" /\ tst_emitted = repeat)

\* the state the run of C20 stops in: the tester is blocked in write_all
\* because the send leg is full, while the forwarder's handler, holding the
\* lock, is blocked in write_all because the receive leg is full
C20_Stuck ==
    /\ tst_pc = "write"
    /\ Len(chan[C2S(1)]) = Cap
    /\ fwd_pc[1] = "write"
    /\ lock_holder = 1
    /\ Len(chan[C2S(Up)]) = Cap

====
